---- MODULE Spec2Model ----
(***************************************************************************)
(* league-registrar: the query-construction core of dbutils.py (the        *)
(* omitted marker, the expression language, the statement builder, the     *)
(* get/add/remove/edit facade) and the composite codecs.                   *)
(*                                                                         *)
(* Python values are records [t, n, s, items]: t is the Python type, n the *)
(* number of an int, s the characters of a str (one-character strings),    *)
(* items the elements of a list.  SQL text is a sequence of tokens; every  *)
(* bind placeholder is the token "?".                                      *)
(***************************************************************************)
EXTENDS Integers, Sequences, FiniteSets, TLC

VARIABLES
  pc,        \* "idle": a descriptor list is being assembled; "done": a call returned
  parts,     \* the descriptor list handed to the call
  prepared,  \* <<>> or <<the update function edit returned>>
  call,      \* the call made: its operation and its flags
  built,     \* what the statement builder returned inside the call
  stmt,      \* <<>> or <<the arguments of cur.execute>>
  log,       \* the connection events of the call, in order
  res,       \* what the call returned or raised
  codec,     \* a value on its way through a compiler and its decompiler
  _conn,     \* AutoSqliteConnection._conn: "None" or "open"
  USERS      \* the USERS table: its committed rows, and the rows inserted through
             \* the caller's connection that the caller has not committed yet

vars == <<pc, parts, prepared, call, built, stmt, log, res, codec, _conn, USERS>>

(***************************************************************************)
(* Python values                                                           *)
(***************************************************************************)
MISSING == [t |-> "MISSING", n |-> 0, s |-> <<>>, items |-> <<>>]

None == [t |-> "None", n |-> 0, s |-> <<>>, items |-> <<>>]

IntV(n) == [t |-> "int", n |-> n, s |-> <<>>, items |-> <<>>]

StrV(s) == [t |-> "str", n |-> 0, s |-> s, items |-> <<>>]

ListV(items) == [t |-> "list", n |-> 0, s |-> <<>>, items |-> items]

\* the value of an expression that is a tuple of sub-values (and_/or_) or an
\* Expression object (is_not of an expression): never the marker
ObjV == [t |-> "object", n |-> 0, s |-> <<>>, items |-> <<>>]

Digit(d) == <<"0", "1", "2", "3", "4", "5", "6", "7", "8", "9">>[d + 1]

RECURSIVE Digits(_)
Digits(n) == IF n < 10 THEN <<Digit(n)>> ELSE Digits(n \div 10) \o <<Digit(n % 10)>>

MissingText ==
  <<"<", "c", "l", "a", "s", "s", " ", "'">> \o
  <<"l", "e", "a", "g", "u", "e", "r", "e", "g", "i", "s", "t", "r", "a", "r">> \o
  <<".", "t", "y", "p", "e", "s", ".", "M", "I", "S", "S", "I", "N", "G", "'", ">">>

RECURSIVE JoinText(_, _)
JoinText(sep, xs) ==
  IF Len(xs) = 0 THEN <<>>
  ELSE IF Len(xs) = 1 THEN xs[1]
  ELSE xs[1] \o sep \o JoinText(sep, Tail(xs))

\* str(v) and repr(v) of the builtin types
RECURSIVE PyStr(_, _)
PyStr(v, asRepr) ==
  CASE v.t = "int" -> IF v.n < 0 THEN <<"-">> \o Digits(0 - v.n) ELSE Digits(v.n)
    [] v.t = "str" -> IF asRepr THEN <<"'">> \o v.s \o <<"'">> ELSE v.s
    [] v.t = "None" -> <<"N", "o", "n", "e">>
    [] v.t = "MISSING" -> MissingText
    [] v.t = "list" ->
         <<"[">> \o JoinText(<<",", " ">>,
                             [i \in 1..Len(v.items) |-> PyStr(v.items[i], TRUE)])
         \o <<"]">>
    [] OTHER -> <<"<", "o", "b", "j", "e", "c", "t", ">">>

\* a field compiler: the marker (none given) or the builtin str
_compile(value, compiler) ==
  IF compiler = "MISSING" THEN value ELSE StrV(PyStr(value, FALSE))

(***************************************************************************)
(* Expressions: k the class, val its .value, args the sub-values, frag the *)
(* text of a custom expression.                                            *)
(***************************************************************************)
Raw(v) == [k |-> "raw", val |-> v, args |-> <<>>, frag |-> <<>>]

IsExpression(e) == e.k # "raw"

\* a mutation of AllMissing: any() where the code has all()
AnyMissing(values) == \E i \in 1..Len(values) : values[i] = Raw(MISSING)

\* all(v is types.MISSING for v in values)
AllMissing(values) == \A i \in 1..Len(values) : values[i] = Raw(MISSING)

or_(values) ==
  [k |-> "or_", val |-> IF AllMissing(values) THEN MISSING ELSE ObjV,
   args |-> values, frag |-> <<>>]

and_(values) ==
  [k |-> "and_", val |-> IF AllMissing(values) THEN MISSING ELSE ObjV,
   args |-> values, frag |-> <<>>]

\* is_not(value): value a raw value or an expression
is_not(value) ==
  [k |-> "is_not", val |-> IF IsExpression(value) THEN ObjV ELSE value.val,
   args |-> IF IsExpression(value) THEN <<value>> ELSE <<>>, frag |-> <<>>]

\* the variants that hold one raw value
Unary(k, v) == [k |-> k, val |-> v, args |-> <<>>, frag |-> <<>>]

is_(v) == Unary("is_", v)

between(a, b) == [k |-> "between", val |-> ListV(<<a, b>>), args |-> <<>>, frag |-> <<>>]

custom(expr, params) ==
  [k |-> "custom", val |-> ListV(params), args |-> <<>>, frag |-> expr]

part(column, expr, compiler, decompiler) ==
  [column |-> column, expr |-> expr, compiler |-> compiler, decompiler |-> decompiler]

Ok(stmtText, params) == [err |-> "none", stmt |-> stmtText, params |-> params]

Raise(e) == [err |-> e, stmt |-> <<>>, params |-> None]

\* list.extend(p): a list gives its items, a str its characters, anything
\* else is not iterable
Extend(parameters, p) ==
  CASE p.t = "list" -> [err |-> "none", list |-> parameters \o p.items]
    [] p.t = "str" ->
         [err |-> "none",
          list |-> parameters \o [i \in 1..Len(p.s) |-> StrV(<<p.s[i]>>)]]
    [] OTHER -> [err |-> "TypeError", list |-> parameters]

\* the fragment of the variants that hold one raw value
UnaryText(k, column) ==
  CASE k = "is_" -> <<column, " IS ", "?">>
    [] k = "collate_nocase" -> <<column, " IS ", "?", " COLLATE NOCASE">>
    [] k = "collate_binary" -> <<column, " IS ", "?", " COLLATE BINARY">>
    [] k = "collate_rtrim" -> <<column, " IS ", "?", " COLLATE RTRIM">>
    [] k = "substr" -> <<"instr(", column, ", ", "?", ")">>
    [] k = "nocase_substr" -> <<column, " LIKE '%'||", "?", "||'%' ESCAPE '\\'">>
    [] k = "greater_than" -> <<column, " > ", "?">>
    [] k = "greater_than_or_equal" -> <<column, " >= ", "?">>
    [] k = "less_than" -> <<column, " < ", "?">>
    [] k = "less_than_or_equal" -> <<column, " <= ", "?">>

\* greater_than.format returns the compiled value itself, every other
\* one-value variant a one-element list of it
UnaryParams(k, v, compiler) ==
  IF k = "greater_than" THEN _compile(v, compiler)
  ELSE ListV(<<_compile(v, compiler)>>)

\* a mutation of Skipped: only the descriptor's own value is tested
SkippedOuterOnly(p) == p.expr = Raw(MISSING)

\* db._build_where: the two tests that make the loop continue
Skipped(p) == p.expr = Raw(MISSING) \/ (IsExpression(p.expr) /\ p.expr.val = MISSING)

RECURSIVE Format(_, _, _)
RECURSIVE WhereLoop(_, _, _, _)

\* a mutation of WhereLoop: "if not value" where the code tests the marker by
\* identity, so a raw None (or 0, or "") is skipped like the marker
WhereLoopTruthy(ps, i, statements, parameters) ==
  IF i > Len(ps)
  THEN [err |-> "none", statements |-> statements, parameters |-> parameters]
  ELSE
    LET p == ps[i] IN
    IF Skipped(p) \/ (~IsExpression(p.expr) /\ p.expr.val = None)
    THEN WhereLoop(ps, i + 1, statements, parameters)
    ELSE
      LET _expr == IF IsExpression(p.expr) THEN p.expr ELSE is_(p.expr.val)
          f == Format(_expr, p.column, p.compiler)
          x == Extend(parameters, f.params)
      IN
      IF f.err # "none"
      THEN [err |-> f.err, statements |-> <<>>, parameters |-> <<>>]
      ELSE IF x.err # "none"
      THEN [err |-> x.err, statements |-> <<>>, parameters |-> <<>>]
      ELSE WhereLoop(ps, i + 1, Append(statements, f.stmt), x.list)

\* db._build_where: the loop from descriptor i on
WhereLoop(ps, i, statements, parameters) ==
  IF i > Len(ps)
  THEN [err |-> "none", statements |-> statements, parameters |-> parameters]
  ELSE
    LET p == ps[i] IN
    IF Skipped(p) THEN WhereLoop(ps, i + 1, statements, parameters)
    ELSE
      LET _expr == IF IsExpression(p.expr) THEN p.expr ELSE is_(p.expr.val)
          f == Format(_expr, p.column, p.compiler)
          x == Extend(parameters, f.params)
      IN
      IF f.err # "none"
      THEN [err |-> f.err, statements |-> <<>>, parameters |-> <<>>]
      ELSE IF x.err # "none"
      THEN [err |-> x.err, statements |-> <<>>, parameters |-> <<>>]
      ELSE WhereLoop(ps, i + 1, Append(statements, f.stmt), x.list)

_build_where(ps) == WhereLoop(ps, 1, <<>>, <<>>)

\* and_.format / or_.format: the sub-values as descriptors of the same column
Combine(e, joinwith, column, compiler) ==
  IF e.val = MISSING THEN Raise("TypeError")
  ELSE
    LET w == _build_where([i \in 1..Len(e.args) |->
                             part(column, e.args[i], compiler, "MISSING")])
    IN
    IF w.err # "none" THEN Raise(w.err)
    ELSE Ok(JoinText(<<joinwith>>, w.statements), ListV(w.parameters))

Format(e, column, compiler) ==
  CASE e.k = "or_" -> Combine(e, " OR ", column, compiler)
    [] e.k = "and_" -> Combine(e, " AND ", column, compiler)
    [] e.k = "is_not" ->
         IF Len(e.args) > 0
         THEN LET f == Format(e.args[1], column, compiler) IN
              IF f.err # "none" THEN f ELSE Ok(<<"NOT ">> \o f.stmt, f.params)
         ELSE Ok(<<column, " IS NOT ", "?">>, ListV(<<_compile(e.val, compiler)>>))
    [] e.k = "between" ->
         Ok(<<column, " BETWEEN ", "?", " AND ", "?">>, _compile(e.val, compiler))
    [] e.k = "custom" -> Ok(e.frag, e.val)
    [] OTHER -> Ok(UnaryText(e.k, column), UnaryParams(e.k, e.val, compiler))

\* a mutation of _build_insert: an omitted descriptor is kept, as a NULL
_build_insert_null(ps) ==
  [err |-> "none",
   statements |-> [i \in 1..Len(ps) |-> <<ps[i].column>>],
   parameters |-> [i \in 1..Len(ps) |->
                     IF ps[i].expr = Raw(MISSING) THEN None
                     ELSE _compile(IF IsExpression(ps[i].expr) THEN ObjV ELSE ps[i].expr.val,
                                   ps[i].compiler)]]

\* db._build_insert
_build_insert(ps) ==
  LET kept == SelectSeq(ps, LAMBDA p : p.expr # Raw(MISSING)) IN
  [err |-> "none",
   statements |-> [i \in 1..Len(kept) |-> <<kept[i].column>>],
   parameters |-> [i \in 1..Len(kept) |->
                     _compile(IF IsExpression(kept[i].expr) THEN ObjV ELSE kept[i].expr.val,
                              kept[i].compiler)]]

\* db._build_set
_build_set(ps) ==
  LET kept == SelectSeq(ps, LAMBDA p : p.expr # Raw(MISSING)) IN
  [err |-> "none",
   statements |-> [i \in 1..Len(kept) |-> <<kept[i].column, "=", "?">>],
   parameters |-> [i \in 1..Len(kept) |->
                     _compile(IF IsExpression(kept[i].expr) THEN ObjV ELSE kept[i].expr.val,
                              kept[i].compiler)]]

(***************************************************************************)
(* The composite codecs.  A dict is a value of type "dict" whose items are *)
(* its [key, value] pairs in insertion order.                              *)
(***************************************************************************)
DictV(pairs) == [t |-> "dict", n |-> 0, s |-> <<>>, items |-> pairs]

\* chr(130), chr(131), chr(134), chr(135)
ITEM_SEP == "<130>"

KV_SEP == "<131>"

WRAP_OPEN == "<134>"

WRAP_CLOSE == "<135>"

\* Python truth of a value: the operand test of "value and ..."
Truthy(v) ==
  CASE v.t = "str" -> Len(v.s) > 0
    [] v.t \in {"list", "dict"} -> Len(v.items) > 0
    [] v.t = "int" -> v.n # 0
    [] v.t = "None" -> FALSE
    [] OTHER -> TRUE

\* ListCompiler.__call__
ListCompiler(value) ==
  IF ~Truthy(value) THEN value
  ELSE StrV(JoinText(<<ITEM_SEP>>,
                     [i \in 1..Len(value.items) |->
                        <<WRAP_OPEN>> \o PyStr(value.items[i], FALSE) \o <<WRAP_CLOSE>>]))

\* DictCompiler.__call__
DictCompiler(value) ==
  IF ~Truthy(value) THEN value
  ELSE StrV(JoinText(<<ITEM_SEP>>,
                     [i \in 1..Len(value.items) |->
                        <<WRAP_OPEN>> \o PyStr(value.items[i].items[1], FALSE) \o <<KV_SEP>>
                          \o PyStr(value.items[i].items[2], FALSE) \o <<WRAP_CLOSE>>]))

\* str.split(sep): the pieces of text between the separators
RECURSIVE SplitFrom(_, _, _, _)
SplitFrom(text, sep, i, piece) ==
  IF i > Len(text) THEN <<piece>>
  ELSE IF text[i] = sep THEN <<piece>> \o SplitFrom(text, sep, i + 1, <<>>)
  ELSE SplitFrom(text, sep, i + 1, Append(piece, text[i]))

Split(text, sep) == SplitFrom(text, sep, 1, <<>>)

\* v[1:-1]
Strip(v) == SubSeq(v, 2, Len(v) - 1)

IsDigit(c) == \E d \in 0..9 : Digit(d) = c

DigitValue(c) == CHOOSE d \in 0..9 : Digit(d) = c

RECURSIVE Number(_)
Number(text) ==
  IF Len(text) = 0 THEN 0
  ELSE 10 * Number(SubSeq(text, 1, Len(text) - 1)) + DigitValue(text[Len(text)])

IsNumber(text) == Len(text) > 0 /\ \A i \in 1..Len(text) : IsDigit(text[i])

Coerced(v) == [err |-> "none", val |-> v]

CoerceError(e) == [err |-> e, val |-> None]

\* t(v) for the element types int and str
Coerce(t, text) ==
  IF t = "str" THEN Coerced(StrV(text))
  ELSE IF IsNumber(text) THEN Coerced(IntV(Number(text)))
  ELSE IF Len(text) > 1 /\ text[1] = "-" /\ IsNumber(Tail(text))
  THEN Coerced(IntV(0 - Number(Tail(text))))
  ELSE CoerceError("ValueError")

\* Decompiler.format(*values): the values coerced by the types, the last type
\* repeated for the values beyond them
DecompilerFormat(types, values) ==
  IF Len(types) = 0 THEN Coerced(ListV([i \in 1..Len(values) |-> StrV(values[i])]))
  ELSE
    LET ts == IF Len(values) > Len(types)
              THEN types \o [i \in 1..(Len(values) - Len(types)) |-> types[Len(types)]]
              ELSE types
        out == [i \in 1..Len(values) |-> Coerce(ts[i], values[i])]
    IN
    IF \E i \in 1..Len(out) : out[i].err # "none" THEN CoerceError("ValueError")
    ELSE Coerced(ListV([i \in 1..Len(out) |-> out[i].val]))

\* ListDecompiler.__call__
ListDecompiler(types, value) ==
  IF ~Truthy(value) THEN Coerced(value)
  ELSE
    LET pieces == Split(value.s, ITEM_SEP)
        out == [i \in 1..Len(pieces) |-> DecompilerFormat(types, <<Strip(pieces[i])>>)]
    IN
    IF \E i \in 1..Len(out) : out[i].err # "none" THEN CoerceError("ValueError")
    ELSE Coerced(ListV([i \in 1..Len(out) |-> out[i].val.items[1]]))

\* dict(pairs): a later pair replaces the value of an equal earlier key
RECURSIVE DictOf(_, _)
DictOf(pairs, acc) ==
  IF Len(pairs) = 0 THEN acc
  ELSE LET kv == pairs[1] IN
       IF \E i \in 1..Len(acc) : acc[i].items[1] = kv.items[1]
       THEN DictOf(Tail(pairs),
                   [i \in 1..Len(acc) |->
                      IF acc[i].items[1] = kv.items[1] THEN kv ELSE acc[i]])
       ELSE DictOf(Tail(pairs), Append(acc, kv))

\* DictDecompiler.__call__
DictDecompiler(types, value) ==
  IF ~Truthy(value) THEN Coerced(value)
  ELSE
    LET pieces == Split(value.s, ITEM_SEP)
        out == [i \in 1..Len(pieces) |->
                  DecompilerFormat(types, Split(Strip(pieces[i]), KV_SEP))]
    IN
    IF \E i \in 1..Len(out) : out[i].err # "none" \/ Len(out[i].val.items) # 2
    THEN CoerceError("ValueError")
    ELSE Coerced(DictV(DictOf([i \in 1..Len(out) |-> out[i].val], <<>>)))

(***************************************************************************)
(* The facade db(db_conn, table)                                           *)
(***************************************************************************)
table == "TEAMS"

JoinWith(matchall) == IF matchall THEN " AND " ELSE " OR "

Args(query, params, bound) == [query |-> query, params |-> params, bound |-> bound]

\* db.get: prepare query
GetArgs(w, matchall) ==
  IF Len(w.parameters) > 0
  THEN Args(<<"SELECT * FROM ", table, " WHERE ">>
              \o JoinText(<<JoinWith(matchall)>>, w.statements), w.parameters, TRUE)
  ELSE Args(<<"SELECT * FROM ", table>>, <<>>, FALSE)

\* db.remove: prepare query
RemoveArgs(w, matchall) ==
  IF Len(w.parameters) > 0
  THEN Args(<<"DELETE FROM ", table, " WHERE ">>
              \o JoinText(<<JoinWith(matchall)>>, w.statements), w.parameters, TRUE)
  ELSE Args(<<"DELETE FROM ", table>>, <<>>, FALSE)

\* a mutation of EditArgs: the WHERE parameters are bound before the SET ones
EditArgsWhereFirst(set, w, matchall) ==
  IF Len(w.parameters) > 0
  THEN Args(<<"UPDATE ", table, " SET ">> \o JoinText(<<",">>, set.statements)
              \o <<" WHERE ">> \o JoinText(<<JoinWith(matchall)>>, w.statements),
            w.parameters \o set.parameters, TRUE)
  ELSE Args(<<"UPDATE ", table, " SET ">> \o JoinText(<<",">>, set.statements),
            set.parameters, TRUE)

\* db.edit._edit: prepare query
EditArgs(set, w, matchall) ==
  IF Len(w.parameters) > 0
  THEN Args(<<"UPDATE ", table, " SET ">> \o JoinText(<<",">>, set.statements)
              \o <<" WHERE ">> \o JoinText(<<JoinWith(matchall)>>, w.statements),
            set.parameters \o w.parameters, TRUE)
  ELSE Args(<<"UPDATE ", table, " SET ">> \o JoinText(<<",">>, set.statements),
            set.parameters, TRUE)

\* db.add: prepare for query
AddArgs(b) ==
  IF Len(b.parameters) > 0
  THEN Args(<<"INSERT INTO ", table, " (">> \o JoinText(<<",">>, b.statements)
              \o <<") VALUES (">>
              \o JoinText(<<",">>, [i \in 1..Len(b.statements) |-> <<"?">>]) \o <<")">>,
            b.parameters, TRUE)
  ELSE Args(<<"INSERT INTO ", table>>, <<>>, FALSE)

NoCall ==
  [op |-> "none", matchall |-> TRUE, ext |-> FALSE, batchsize |-> -1, builder |-> FALSE,
   rows |-> <<>>]

NoBuilt == [err |-> "none", statements |-> <<>>, parameters |-> <<>>]

\* batchsize None
NoBatch == -1

Returned(kind, rows) == [err |-> "none", kind |-> kind, rows |-> rows]

Raised(e) == [err |-> e, kind |-> "raise", rows |-> <<>>]

NoRes == [err |-> "none", kind |-> "none", rows |-> <<>>]

BoolV(b) == [t |-> "bool", n |-> IF b THEN 1 ELSE 0, s |-> <<>>, items |-> <<>>]

\* an instance of the builder made of the fields of one row
RecordV(fields) == [t |-> "record", n |-> 0, s |-> <<>>, items |-> fields]

\* a mutation of _decompile: the decompiler is not applied
_decompile_skipped(value, decompiler) == value

\* a field decompiler: the marker (none given), ListDecompiler(str) or the
\* builtin bool
_decompile(value, decompiler) ==
  IF decompiler = "MISSING" THEN value
  ELSE IF decompiler = "ListDecompiler(str)" THEN ListDecompiler(<<"str">>, value).val
  ELSE BoolV(Truthy(value))

\* db._decompile_all: zip stops at the shorter of the two
_decompile_all(values, ps) ==
  [i \in 1..(IF Len(values) < Len(ps) THEN Len(values) ELSE Len(ps)) |->
     _decompile(values[i], ps[i].decompiler)]

\* fetchmany(n) of sqlite3: at most n rows, and every row when n is 0
FetchMany(rows, n) ==
  IF n = 0 THEN rows ELSE SubSeq(rows, 1, IF n < Len(rows) THEN n ELSE Len(rows))

\* ValueError("insufficient number of parts provided; expected {expected},
\* got {got}")
RaisedArity(expected, got) ==
  [err |-> "ValueError", kind |-> "raise", rows |-> <<IntV(expected), IntV(got)>>]

\* a mutation of GetResult: the width of the first row is not tested
GetResultUnchecked(result, ps, batchsize, builder) ==
  IF Len(result) = 0 THEN Returned("None", <<>>)
  ELSE LET final == [i \in 1..Len(result) |->
                       IF builder THEN RecordV(_decompile_all(result[i], ps))
                       ELSE ListV(_decompile_all(result[i], ps))]
       IN
       IF batchsize = 1 THEN Returned("record", <<final[1]>>)
       ELSE Returned("sequence", final)

\* db.get: turn query into instances of builder
GetResult(result, ps, batchsize, builder) ==
  IF Len(result) = 0 THEN Returned("None", <<>>)
  ELSE IF Len(result[1]) # Len(ps) THEN RaisedArity(Len(result[1]), Len(ps))
  ELSE LET final == [i \in 1..Len(result) |->
                       IF builder THEN RecordV(_decompile_all(result[i], ps))
                       ELSE ListV(_decompile_all(result[i], ps))]
       IN
       IF batchsize = 1 THEN Returned("record", <<final[1]>>)
       ELSE Returned("sequence", final)

(***************************************************************************)
(* Actions                                                                 *)
(***************************************************************************)
\* the caller appends a descriptor to the list it is going to pass
AddPart(column, expr, compiler, decompiler) ==
  /\ pc = "idle"
  /\ parts' = Append(parts, part(column, expr, compiler, decompiler))
  /\ UNCHANGED <<USERS, pc, prepared, call, built, stmt, log, res, codec, _conn>>

\* db._build_where(parts), called on its own
BuildWhere ==
  /\ pc = "idle"
  /\ pc' = "done"
  /\ call' = [NoCall EXCEPT !.op = "build_where"]
  /\ built' = _build_where(parts)
  /\ res' = IF built'.err = "none" THEN Returned("tuple", <<>>) ELSE Raised(built'.err)
  /\ UNCHANGED <<USERS, parts, prepared, stmt, log, codec, _conn>>

\* a mutation of Scoped: the connection is closed at the end of the body, so
\* only when the body runs to its end
ScopedNoExit(body) ==
  <<"connect">> \o body
    \o (IF body[Len(body)] \in {"commit", "fetch"} THEN <<"close">> ELSE <<>>)

\* with self._db_conn as (conn, cur): __enter__ connects, __exit__ closes on
\* every way out of the body and lets an exception of the body through
Scoped(body) == <<"connect">> \o body \o <<"close">>

\* AutoSqliteConnection._conn after the events: set by __enter__, reset to
\* the result of close() by __exit__
RECURSIVE After(_, _)
After(c, events) ==
  IF Len(events) = 0 THEN c
  ELSE After(IF events[1] = "connect" THEN "open"
             ELSE IF events[1] = "close" THEN "None" ELSE c,
             Tail(events))

\* db.get(parts, batchsize, matchall, builder); rows is what the statement
\* matches, fails whether the engine raises on execute
Get(batchsize, matchall, builder, rows, fails) ==
  LET w == _build_where(parts) IN
  /\ pc = "idle"
  /\ pc' = "done"
  /\ call' = [op |-> "get", matchall |-> matchall, ext |-> FALSE, batchsize |-> batchsize,
              builder |-> builder, rows |-> rows]
  /\ built' = w
  /\ IF w.err # "none"
     THEN stmt' = <<>> /\ log' = <<>> /\ res' = Raised(w.err)
     ELSE /\ stmt' = <<GetArgs(w, matchall)>>
          /\ IF fails
             THEN log' = Scoped(<<"execute">>) /\ res' = Raised("StorageError")
             ELSE /\ log' = Scoped(<<"execute", "fetch">>)
                  /\ res' = GetResult(IF batchsize = NoBatch THEN rows
                                      ELSE FetchMany(rows, batchsize),
                                      parts, batchsize, builder)
  /\ _conn' = After(_conn, log')
  /\ UNCHANGED <<USERS, parts, prepared, codec>>

\* a mutation of RunLog: the facade commits on the caller's connection too
RunLogCommits(ext, fails) ==
  IF ext THEN (IF fails THEN <<"cursor", "execute">> ELSE <<"cursor", "execute", "commit">>)
  ELSE Scoped(IF fails THEN <<"execute">> ELSE <<"execute", "commit">>)

\* the events of remove and of phase 2 of edit: on the external connection,
\* or in the scope of a connection of the facade
RunLog(ext, fails) ==
  IF ext THEN <<"cursor", "execute">>
  ELSE Scoped(IF fails THEN <<"execute">> ELSE <<"execute", "commit">>)

\* a mutation of AddLog: the insert is committed before the callback runs
AddLogCommitFirst(ext, callback, fails, cbfails) ==
  LET body == IF fails THEN <<"execute">>
              ELSE IF callback THEN <<"execute", "commit", "return_">>
              ELSE <<"execute", "commit">>
  IN
  IF ext THEN <<"cursor">> \o SelectSeq(body, LAMBDA e : e # "commit")
  ELSE Scoped(body)

\* the events of add: the callback runs on the result of the execute
AddLog(ext, callback, fails, cbfails) ==
  LET body == IF fails THEN <<"execute">>
              ELSE IF callback THEN <<"execute", "return_">>
              ELSE <<"execute">>
      raised == fails \/ (callback /\ cbfails)
  IN
  IF ext THEN <<"cursor">> \o body
  ELSE Scoped(IF raised THEN body ELSE body \o <<"commit">>)

\* db.remove(parts, matchall, connection)
Remove(matchall, ext, fails) ==
  LET w == _build_where(parts) IN
  /\ pc = "idle"
  /\ pc' = "done"
  /\ call' = [NoCall EXCEPT !.op = "remove", !.matchall = matchall, !.ext = ext]
  /\ built' = w
  /\ IF w.err # "none"
     THEN stmt' = <<>> /\ log' = <<>> /\ res' = Raised(w.err)
     ELSE /\ stmt' = <<RemoveArgs(w, matchall)>>
          /\ log' = RunLog(ext, fails)
          /\ res' = IF fails THEN Raised("StorageError") ELSE Returned("None", <<>>)
  /\ _conn' = After(_conn, log')
  /\ UNCHANGED <<USERS, parts, prepared, codec>>

\* the update function edit returns: the SET lists it closes over, and how
\* many times it has been applied so far (0, 1, or 2 for twice and more)
Update(set) ==
  [statements |-> set.statements, parameters |-> set.parameters, applied |-> 0]

Applied(f) == [f EXCEPT !.applied = IF f.applied < 2 THEN f.applied + 1 ELSE 2]

\* a mutation of Edit: the empty change set is not tested at construction
EditUnchecked ==
  /\ pc = "idle"
  /\ pc' = "done"
  /\ call' = [NoCall EXCEPT !.op = "edit"]
  /\ built' = _build_set(parts)
  /\ prepared' = <<Update(built')>>
  /\ res' = Returned("function", <<>>)
  /\ UNCHANGED <<USERS, parts, stmt, log, codec, _conn>>

\* db.edit(parts): phase 1
Edit ==
  LET set == _build_set(parts) IN
  /\ pc = "idle"
  /\ pc' = "done"
  /\ call' = [NoCall EXCEPT !.op = "edit"]
  /\ built' = set
  /\ IF Len(set.parameters) = 0 /\ Len(set.statements) = 0
     THEN prepared' = prepared /\ res' = Raised("ValueError")
     ELSE prepared' = <<Update(set)>> /\ res' = Returned("function", <<>>)
  /\ UNCHANGED <<USERS, parts, stmt, log, codec, _conn>>

\* the update function edit returned, applied: phase 2
Apply(matchall, ext, fails) ==
  LET w == _build_where(parts) IN
  /\ pc = "idle"
  /\ Len(prepared) = 1
  /\ pc' = "done"
  /\ call' = [NoCall EXCEPT !.op = "apply", !.matchall = matchall, !.ext = ext]
  /\ built' = w
  /\ IF w.err # "none"
     THEN stmt' = <<>> /\ log' = <<>> /\ res' = Raised(w.err)
     ELSE /\ stmt' = <<EditArgs(prepared[1], w, matchall)>>
          /\ log' = RunLog(ext, fails)
          /\ res' = IF fails THEN Raised("StorageError")
                    ELSE IF ext THEN Returned("cursor", <<>>) ELSE Returned("None", <<>>)
  /\ prepared' = <<Applied(prepared[1])>>
  /\ _conn' = After(_conn, log')
  /\ UNCHANGED <<USERS, parts, codec>>

\* db.add(parts, connection, return_); fails: the engine raises on execute,
\* as it always does on the text without columns, which is not a statement;
\* cbfails: the callback raises
Add(ext, callback, fails, cbfails) ==
  LET b == _build_insert(parts)
      raises == fails \/ Len(b.parameters) = 0
  IN
  /\ pc = "idle"
  /\ pc' = "done"
  /\ call' = [NoCall EXCEPT !.op = "add", !.ext = ext]
  /\ built' = b
  /\ stmt' = <<AddArgs(b)>>
  /\ log' = AddLog(ext, callback, raises, cbfails)
  /\ res' = IF raises THEN Raised("StorageError")
            ELSE IF callback /\ cbfails THEN Raised("CallbackError")
            ELSE Returned(IF callback THEN "return_" ELSE "None", <<>>)
  /\ _conn' = After(_conn, log')
  /\ UNCHANGED <<USERS, parts, prepared, codec>>

\* the call is over; the caller starts a new descriptor list
Return ==
  /\ pc = "done"
  /\ pc' = "idle"
  /\ parts' = <<>>
  /\ call' = NoCall
  /\ built' = NoBuilt
  /\ stmt' = <<>>
  /\ log' = <<>>
  /\ res' = NoRes
  /\ UNCHANGED <<USERS, prepared, codec, _conn>>


(***************************************************************************)
(* Inputs                                                                  *)
(***************************************************************************)
\* descriptors per call
MaxParts == 2

\* sub-values of an and_/or_
MaxArgs == 2

\* omitted markers on each side of the one kept sub-value of an and_/or_
MaxPad == 1

Bot == StrV(<<"B", "o", "t">>)

Vals == {MISSING, None, IntV(10), Bot}

UnaryKinds ==
  {"is_", "collate_nocase", "collate_binary", "collate_rtrim", "substr", "nocase_substr",
   "greater_than", "greater_than_or_equal", "less_than", "less_than_or_equal"}

Comparisons == {"greater_than", "greater_than_or_equal", "less_than", "less_than_or_equal"}

Customs ==
  {custom(<<"active">>, <<>>), custom(<<"score", " % 2 = ", "?">>, <<IntV(1)>>)}

SeqsUpTo(S, n) == UNION {[1..m -> S] : m \in 0..n}

\* every variant on raw values
Atoms ==
  {Raw(v) : v \in Vals}
  \cup {Unary(k, v) : k \in UnaryKinds, v \in Vals}
  \cup {is_not(Raw(v)) : v \in Vals}
  \cup {between(a, b) : a \in Vals, b \in Vals}
  \cup Customs

SubVals ==
  {Raw(MISSING), Raw(IntV(10)), is_(MISSING), is_(Bot), Unary("greater_than", IntV(10)),
   between(IntV(10), IntV(20)), or_(<<>>), and_(<<is_(MISSING)>>)}

Combos == {or_(a) : a \in SeqsUpTo(SubVals, MaxArgs)} \cup {and_(a) : a \in SeqsUpTo(SubVals, MaxArgs)}

Negs == {is_not(e) : e \in {a \in Atoms : IsExpression(a)} \cup Combos}

Pad(n) == [i \in 1..n |-> Raw(MISSING)]

Branch == Atoms \cup Negs \cup Combos

Padded ==
  {or_(Pad(b) \o <<x>> \o Pad(a)) : x \in Branch, b \in 0..MaxPad, a \in 0..MaxPad}
  \cup {and_(Pad(b) \o <<x>> \o Pad(a)) : x \in Branch, b \in 0..MaxPad, a \in 0..MaxPad}

ExprPool == Atoms \cup Combos \cup Negs \cup Padded

Compilers == {"MISSING", "str"}

\* the descriptor list of a table: the column and the compiler of each position
Schema ==
  <<[column |-> "score", compiler |-> "MISSING"],
    [column |-> "name", compiler |-> "str"],
    [column |-> "team", compiler |-> "MISSING"],
    [column |-> "active", compiler |-> "MISSING"]>>

StmtPool ==
  {Raw(MISSING), Raw(IntV(10)), is_(MISSING), is_not(Raw(Bot)),
   between(IntV(10), IntV(20)), Unary("greater_than", IntV(10)),
   Unary("less_than", Bot), custom(<<"active">>, <<>>),
   or_(<<is_(IntV(10)), Raw(IntV(20))>>),
   is_not(or_(<<is_(IntV(10)), Raw(IntV(20))>>)),
   and_(<<or_(<<is_(IntV(10)), Raw(IntV(20))>>), is_not(Raw(Bot))>>)}

NoCodec ==
  [step |-> "none", kind |-> "list", types |-> <<>>, value |-> None, stored |-> None,
   back |-> None, err |-> "none"]

Init ==
  /\ pc = "idle"
  /\ parts = <<>>
  /\ prepared = <<>>
  /\ call = NoCall
  /\ built = NoBuilt
  /\ stmt = <<>>
  /\ log = <<>>
  /\ res = NoRes
  /\ codec = NoCodec
  /\ _conn = "None"
  /\ USERS = [rows |-> <<>>, uncommitted |-> <<>>]

\* the caller fills the next position of the table's descriptor list
FillPart ==
  /\ pc = "idle"
  /\ Len(parts) < MaxParts
  /\ \E e \in StmtPool :
       AddPart(Schema[Len(parts) + 1].column, e, Schema[Len(parts) + 1].compiler, "MISSING")

CallBuildWhere == BuildWhere

CallGet == \E matchall \in BOOLEAN : Get(NoBatch, matchall, FALSE, <<>>, FALSE)

CallRemove == \E matchall \in BOOLEAN : Remove(matchall, FALSE, FALSE)

CallAdd == Add(FALSE, FALSE, FALSE, FALSE)

\* the values of an update are raw values
CallEdit == (\A i \in 1..Len(parts) : ~IsExpression(parts[i].expr)) /\ Edit

CallApply == \E matchall \in BOOLEAN : Apply(matchall, FALSE, FALSE)

Next ==
  \/ FillPart
  \/ CallBuildWhere
  \/ CallGet
  \/ CallRemove
  \/ CallAdd
  \/ CallEdit
  \/ CallApply
  \/ Return

Spec == Init /\ [][Next]_vars

(***************************************************************************)
(* One descriptor, every expression shape                                  *)
(***************************************************************************)
OnePart ==
  /\ pc = "idle"
  /\ Len(parts) = 0
  /\ \E e \in ExprPool, c \in Compilers : AddPart("score", e, c, "MISSING")

NextExpr ==
  \/ OnePart
  \/ CallBuildWhere
  \/ Return

SpecExpr == Init /\ [][NextExpr]_vars

(***************************************************************************)
(* A value through a codec pair                                            *)
(***************************************************************************)
\* items of a sequence or a mapping
MaxItems == 2

\* coercion types of a decompiler
MaxTypes == 2

Items == {IntV(7), IntV(12), StrV(<<>>), StrV(<<"a">>)}

TypeLists == SeqsUpTo({"int", "str"}, MaxTypes)

Lists == {ListV(xs) : xs \in SeqsUpTo(Items, MaxItems)}

Pairs == {ListV(<<k, v>>) : k \in Items, v \in Items}

Dicts ==
  {DictV(ps) : ps \in {q \in SeqsUpTo(Pairs, MaxItems) :
                         \A i \in 1..Len(q), j \in 1..Len(q) :
                           i # j => q[i].items[1] # q[j].items[1]}}

\* the caller takes a value and a codec pair
Take(kind, types, value) ==
  /\ codec.step = "none"
  /\ codec' = [NoCodec EXCEPT !.step = "taken", !.kind = kind, !.types = types,
                              !.value = value]
  /\ UNCHANGED <<USERS, pc, parts, prepared, call, built, stmt, log, res, _conn>>

TakeList ==
  /\ codec.step = "none"
  /\ \E types \in TypeLists, value \in Lists : Take("list", types, value)

TakeDict ==
  /\ codec.step = "none"
  /\ \E types \in TypeLists, value \in Dicts : Take("dict", types, value)

\* compiler(value)
Compile ==
  /\ codec.step = "taken"
  /\ codec' = [codec EXCEPT !.step = "compiled",
                            !.stored = IF codec.kind = "list" THEN ListCompiler(codec.value)
                                       ELSE DictCompiler(codec.value)]
  /\ UNCHANGED <<USERS, pc, parts, prepared, call, built, stmt, log, res, _conn>>

\* the text of a column as the database holds it: what the compiler stored,
\* or the empty text
StoredTexts ==
  {StrV(<<>>)} \cup {ListCompiler(v) : v \in {l \in Lists : Truthy(l)}}

\* the caller reads a stored text back; no value was compiled in this run
Load ==
  /\ codec.step = "none"
  /\ \E types \in TypeLists, text \in StoredTexts :
       codec' = [NoCodec EXCEPT !.step = "loaded", !.kind = "list", !.types = types,
                                !.stored = text]
  /\ UNCHANGED <<USERS, pc, parts, prepared, call, built, stmt, log, res, _conn>>

\* decompiler(stored)
Decompile ==
  /\ codec.step \in {"compiled", "loaded"}
  /\ LET d == IF codec.kind = "list" THEN ListDecompiler(codec.types, codec.stored)
              ELSE DictDecompiler(codec.types, codec.stored)
     IN codec' = [codec EXCEPT !.step = IF codec.step = "loaded" THEN "read"
                                         ELSE "decompiled",
                               !.back = d.val, !.err = d.err]
  /\ UNCHANGED <<USERS, pc, parts, prepared, call, built, stmt, log, res, _conn>>

Drop ==
  /\ codec.step \in {"decompiled", "read"}
  /\ codec' = NoCodec
  /\ UNCHANGED <<USERS, pc, parts, prepared, call, built, stmt, log, res, _conn>>

NextCodec ==
  \/ TakeList
  \/ TakeDict
  \/ Load
  \/ Compile
  \/ Decompile
  \/ Drop

SpecCodec == Init /\ [][NextCodec]_vars

(***************************************************************************)
(* The facade calls with and without an external connection, an engine     *)
(* that may raise on execute and a post-insert callback that may raise     *)
(***************************************************************************)
Alpha == StrV(<<"A", "l", "p", "h", "a">>)

\* the column, the compiler and the values of each position of the descriptor
\* list
RunSchema ==
  <<[column |-> "name", compiler |-> "str",
     values |-> {Raw(MISSING), Raw(Alpha), Unary("greater_than", IntV(10))}],
    [column |-> "active", compiler |-> "MISSING",
     values |-> {Raw(MISSING), Raw(None), is_(MISSING)}],
    [column |-> "id", compiler |-> "MISSING",
     values |-> {Raw(MISSING), Raw(IntV(10))}],
    [column |-> "discord_id", compiler |-> "str",
     values |-> {Raw(MISSING), Raw(IntV(10))}]>>

RunPart ==
  /\ pc = "idle"
  /\ Len(parts) < MaxParts
  /\ \E e \in RunSchema[Len(parts) + 1].values :
       AddPart(RunSchema[Len(parts) + 1].column, e, RunSchema[Len(parts) + 1].compiler,
               "MISSING")

\* a row of the table, w columns wide
Row(w) == [i \in 1..w |-> IntV(1)]

\* the statement matches no row or one; the table is as wide as the
\* descriptor list or one column wider, and has a column
RunGet ==
  /\ pc = "idle"
  /\ \E matchall \in BOOLEAN, batchsize \in {NoBatch, 1}, hit \in BOOLEAN,
        wider \in BOOLEAN, fails \in BOOLEAN :
       Get(batchsize, matchall, FALSE,
           IF hit THEN <<Row(Len(parts) + (IF wider \/ Len(parts) = 0 THEN 1 ELSE 0))>>
           ELSE <<>>,
           fails)

RunRemove ==
  /\ pc = "idle"
  /\ \E matchall \in BOOLEAN, ext \in BOOLEAN, fails \in BOOLEAN :
       Remove(matchall, ext, fails)

\* the values of an insert and of an update are raw values
RawParts == \A i \in 1..Len(parts) : ~IsExpression(parts[i].expr)

RunAdd ==
  /\ pc = "idle"
  /\ RawParts
  /\ \E ext \in BOOLEAN, callback \in BOOLEAN, fails \in BOOLEAN, cbfails \in BOOLEAN :
       Add(ext, callback, fails, cbfails)

RunEdit == RawParts /\ Edit

RunApply ==
  /\ pc = "idle"
  /\ \E matchall \in BOOLEAN, ext \in BOOLEAN, fails \in BOOLEAN :
       Apply(matchall, ext, fails)

NextRun ==
  \/ RunPart
  \/ RunGet
  \/ RunRemove
  \/ RunAdd
  \/ RunEdit
  \/ RunApply
  \/ Return

SpecRun == Init /\ [][NextRun]_vars

(***************************************************************************)
(* db.get on a table of up to MaxRows matching rows                        *)
(***************************************************************************)
\* rows the statement matches
MaxRows == 2

GetPool == {Raw(MISSING), Raw(IntV(1))}

\* the column and the decompiler of each position of the descriptor list
GetSchema ==
  <<[column |-> "id", decompiler |-> "MISSING"],
    [column |-> "active", decompiler |-> "bool"],
    [column |-> "name", decompiler |-> "MISSING"],
    [column |-> "retired", decompiler |-> "bool"]>>

GetPart ==
  /\ pc = "idle"
  /\ Len(parts) < MaxParts
  /\ \E e \in GetPool :
       AddPart(GetSchema[Len(parts) + 1].column, e, "MISSING",
               GetSchema[Len(parts) + 1].decompiler)

\* the stored value of column c of the r-th matching row
Cell(r, c) == IntV((r + c) % 2)

\* the first n matching rows of a table w columns wide
Matching(n, w) == [r \in 1..n |-> [c \in 1..w |-> Cell(r, c)]]

\* the table has one column or more: as many as the descriptor list, one
\* fewer or one more
QueryGet ==
  /\ pc = "idle"
  /\ \E batchsize \in {NoBatch} \cup 0..(MaxRows + 1), n \in 0..MaxRows,
        w \in {x \in {Len(parts) - 1, Len(parts), Len(parts) + 1} : x >= 1},
        builder \in BOOLEAN, matchall \in BOOLEAN, fails \in BOOLEAN :
       Get(batchsize, matchall, builder, Matching(n, w), fails)

NextGet ==
  \/ GetPart
  \/ QueryGet
  \/ Return

SpecGet == Init /\ [][NextGet]_vars

(***************************************************************************)
(* Claims                                                                  *)
(***************************************************************************)
WhereOps == {"build_where", "get", "remove", "apply"}

StatementOps == {"get", "remove", "apply"}

\* the descriptor's value is the marker, or an expression whose value is it
Omitted(e) == e = Raw(MISSING) \/ (IsExpression(e) /\ e.val = MISSING)

Kept(ps) == SelectSeq(ps, LAMBDA p : ~Omitted(p.expr))

RECURSIVE Flatten(_)
Flatten(xs) == IF Len(xs) = 0 THEN <<>> ELSE xs[1] \o Flatten(Tail(xs))

Placeholders(text) == Cardinality({i \in 1..Len(text) : text[i] = "?"})

\* the first tokens of the statement of each operation
StatementHead(op) ==
  CASE op = "get" -> <<"SELECT * FROM ", table>>
    [] op = "remove" -> <<"DELETE FROM ", table>>
    [] op = "apply" ->
         <<"UPDATE ", table, " SET ">> \o JoinText(<<",">>, prepared[1].statements)

SetParams(op) == IF op = "apply" THEN prepared[1].parameters ELSE <<>>

\* C1: build_where returns exactly one fragment per descriptor whose value is
\* not omitted, in descriptor order, with the parameters of those fragments
\* concatenated in that order; an omitted descriptor contributes nothing.
C1_OneFragmentPerKeptDescriptor ==
  (pc = "done" /\ call.op = "build_where") =>
    LET kept == Kept(parts)
        one == [j \in 1..Len(kept) |-> _build_where(<<kept[j]>>)]
    IN
    /\ built.err = "none"
    /\ Len(built.statements) = Len(kept)
    /\ \A j \in 1..Len(kept) :
         /\ one[j].err = "none"
         /\ Len(one[j].statements) = 1
         /\ built.statements[j] = one[j].statements[1]
    /\ built.parameters = Flatten([j \in 1..Len(kept) |-> one[j].parameters])

\* C2: in get, remove and phase 2 of edit, whenever build_where yields at
\* least one fragment the executed statement is the head, WHERE, and all the
\* fragments joined with AND (matchall) or OR, run with all their parameters,
\* whatever the number of parameters (zero included).
C2_WhereWheneverAFragmentSurvives ==
  (pc = "done" /\ call.op \in StatementOps /\ built.err = "none"
     /\ Len(built.statements) >= 1) =>
    /\ Len(stmt) = 1
    /\ stmt[1].query = StatementHead(call.op) \o <<" WHERE ">>
                         \o JoinText(<<IF call.matchall THEN " AND " ELSE " OR ">>,
                                     built.statements)
    /\ stmt[1].params = SetParams(call.op) \o built.parameters

\* C3: in get, remove and phase 2 of edit, when every descriptor is omitted
\* the call does not fail and executes a statement with no WHERE clause on
\* the whole table, carrying no WHERE parameters (for edit, exactly the SET
\* parameters).
C3_AllOmittedTargetsWholeTable ==
  (pc = "done" /\ call.op \in StatementOps
     /\ \A i \in 1..Len(parts) : Omitted(parts[i].expr)) =>
    /\ res.err = "none"
    /\ Len(stmt) = 1
    /\ stmt[1].query = StatementHead(call.op)
    /\ stmt[1].params = SetParams(call.op)
    /\ \E i \in 1..Len(log) : log[i] = "execute"

C3_Witness ==
  /\ pc = "done"
  /\ call.op = "apply"
  /\ Len(parts) = MaxParts
  /\ \A i \in 1..Len(parts) : Omitted(parts[i].expr)
  /\ \E i \in 1..Len(parts) : IsExpression(parts[i].expr)
  /\ stmt[1].query = <<"UPDATE ", table, " SET ", "score", "=", "?">>

\* C4: no parameter list returned by the builder contains the omitted marker,
\* for every expression shape at any nesting depth.
C4_MarkerNeverInParameters ==
  (pc = "done" /\ built.err = "none") =>
    \A i \in 1..Len(built.parameters) : built.parameters[i] # MISSING

RECURSIVE HasCustom(_)
HasCustom(e) == e.k = "custom" \/ \E i \in 1..Len(e.args) : HasCustom(e.args[i])

\* C5: for descriptor lists without custom expressions every statement of
\* get/add/remove/edit has as many ? placeholders as bind parameters, and each
\* descriptor contributes as many parameters as its fragment has placeholders.
C5_PlaceholdersMatchParameters ==
  (pc = "done" /\ call.op \in {"get", "add", "remove", "apply"} /\ Len(stmt) = 1
     /\ \A i \in 1..Len(parts) : ~HasCustom(parts[i].expr)) =>
    /\ Placeholders(stmt[1].query) = Len(stmt[1].params)
    /\ call.op # "add" =>
         \A i \in 1..Len(parts) :
           ~Omitted(parts[i].expr) =>
             LET one == _build_where(<<parts[i]>>) IN
             /\ one.err = "none"
             /\ Placeholders(Flatten(one.statements)) = Len(one.parameters)

\* a sub-value resolves to the omitted marker: the marker, an expression whose
\* inner value is the marker, or a combinator all of whose sub-values do
RECURSIVE ResolvesOmitted(_)
ResolvesOmitted(e) ==
  \/ Omitted(e)
  \/ /\ e.k \in {"or_", "and_"}
     /\ \A i \in 1..Len(e.args) : ResolvesOmitted(e.args[i])

\* C6: an and_/or_ whose every sub-value resolves to the omitted marker is
\* dropped by build_where: no fragment (not even an empty one), no parameter.
C6_AllOmittedCombinatorIsDropped ==
  (pc = "done" /\ call.op = "build_where" /\ Len(parts) = 1
     /\ parts[1].expr.k \in {"or_", "and_"} /\ ResolvesOmitted(parts[1].expr)) =>
    /\ built.err = "none"
    /\ built.statements = <<>>
    /\ built.parameters = <<>>

\* the sub-values of a combinator that are not the marker
Branches(e) == SelectSeq(e.args, LAMBDA a : a # Raw(MISSING))

\* an and_/or_ of one sub-value x that is not omitted, among markers
OneBranch(e) ==
  /\ e.k \in {"or_", "and_"}
  /\ Len(Branches(e)) = 1
  /\ ~Omitted(Branches(e)[1])

\* C7: or_(..., x, ...) and and_(..., x, ...), x not omitted and every other
\* sub-value the marker, render to the fragment and parameters of x alone on
\* the same column and compiler.
C7_OmittedBranchesAreNeutral ==
  (pc = "done" /\ call.op = "build_where" /\ Len(parts) = 1 /\ OneBranch(parts[1].expr)) =>
    built = _build_where(<<[parts[1] EXCEPT !.expr = Branches(parts[1].expr)[1]]>>)

C7_Witness ==
  /\ pc = "done"
  /\ call.op = "build_where"
  /\ Len(parts) = 1
  /\ parts[1].expr.k = "and_"
  /\ Len(parts[1].expr.args) = 1 + 2 * MaxPad
  /\ parts[1].expr.args[1 + MaxPad] = between(IntV(10), Bot)
  /\ parts[1].compiler = "MISSING"
  /\ built.statements = <<<<"score", " BETWEEN ", "?", " AND ", "?">>>>
  /\ built.parameters = <<IntV(10), Bot>>

\* C8: is_not(is_(v)) renders as NOT (col IS ?) with [compile(v)], and
\* is_not(v), v not an expression, as col IS NOT ? with [compile(v)].
C8_NegationRendering ==
  (pc = "done" /\ call.op = "build_where" /\ Len(parts) = 1) =>
    LET p == parts[1] IN
    /\ \A v \in Vals \ {MISSING} :
         p.expr = is_not(is_(v)) =>
           /\ built.err = "none"
           /\ built.statements = <<<<"NOT ", "(", p.column, " IS ", "?", ")">>>>
           /\ built.parameters = <<_compile(v, p.compiler)>>
    /\ \A v \in Vals \ {MISSING} :
         p.expr = is_not(Raw(v)) =>
           /\ built.err = "none"
           /\ built.statements = <<<<p.column, " IS NOT ", "?">>>>
           /\ built.parameters = <<_compile(v, p.compiler)>>

ComparisonText(k) ==
  CASE k = "greater_than" -> " > "
    [] k = "greater_than_or_equal" -> " >= "
    [] k = "less_than" -> " < "
    [] k = "less_than_or_equal" -> " <= "

\* C9: each comparison variant with value v renders as col > ?, col >= ?,
\* col < ?, col <= ? with the one-element parameter list [compile(v)], and
\* passes through build_where contributing exactly one parameter.
C9_ComparisonRendering ==
  (pc = "done" /\ call.op = "build_where" /\ Len(parts) = 1) =>
    LET p == parts[1] IN
    \A k \in Comparisons, v \in Vals \ {MISSING} :
      p.expr = Unary(k, v) =>
        /\ built.err = "none"
        /\ built.statements = <<<<p.column, ComparisonText(k), "?">>>>
        /\ built.parameters = <<_compile(v, p.compiler)>>

\* the type of one element
TypeOf(v) == v.t

\* the coercion type of position i: the i-th, or the last one beyond them
TypeAt(types, i) == IF i <= Len(types) THEN types[i] ELSE types[Len(types)]

\* the value's element types equal the configured coercion types (with no
\* types configured the elements stay text, so they are strings)
WellTyped(kind, types, value) ==
  IF kind = "list"
  THEN \A i \in 1..Len(value.items) :
         TypeOf(value.items[i]) = (IF Len(types) = 0 THEN "str" ELSE TypeAt(types, i))
  ELSE \A i \in 1..Len(value.items), j \in 1..2 :
         TypeOf(value.items[i].items[j]) = (IF Len(types) = 0 THEN "str" ELSE TypeAt(types, j))

\* C10: round trip of the composite codecs: for every sequence and mapping
\* whose element types equal the configured coercion types,
\* decompile(compile(v)) = v, the empty, single-item and multi-item values
\* and empty-string items included.
C10_CodecRoundTrip ==
  (codec.step = "decompiled" /\ WellTyped(codec.kind, codec.types, codec.value)) =>
    /\ codec.err = "none"
    /\ codec.back = codec.value

\* C11: ListCompiler applied to an empty sequence returns the empty string,
\* and ListDecompiler applied to the empty string returns an empty sequence;
\* neither raises.
C11_EmptyValueEncoding ==
  /\ (codec.step \in {"compiled", "decompiled"} /\ codec.kind = "list"
        /\ codec.value = ListV(<<>>)) =>
       codec.stored = StrV(<<>>)
  /\ (codec.step = "read" /\ codec.kind = "list" /\ codec.stored = StrV(<<>>)) =>
       /\ codec.err = "none"
       /\ codec.back = ListV(<<>>)

\* the texts of the items a stored text holds
ItemTexts(stored) ==
  LET pieces == Split(stored.s, ITEM_SEP) IN [i \in 1..Len(pieces) |-> Strip(pieces[i])]

\* C12: a ListDecompiler with coercion types t1..tk decodes the i-th item of a
\* stored text as ti of the item's text for i <= k and as tk of it beyond k.
C12_PositionalCoercion ==
  (codec.step \in {"decompiled", "read"} /\ codec.kind = "list"
     /\ Len(codec.types) >= 1 /\ codec.stored.t = "str" /\ Len(codec.stored.s) > 0) =>
    LET texts == ItemTexts(codec.stored)
        want == [i \in 1..Len(texts) |-> Coerce(TypeAt(codec.types, i), texts[i])]
    IN
    IF \E i \in 1..Len(want) : want[i].err # "none"
    THEN codec.err # "none"
    ELSE /\ codec.err = "none"
         /\ codec.back = ListV([i \in 1..Len(want) |-> want[i].val])

\* descriptor i carries a value (it is not the omitted marker)
Present(i) == parts[i].expr # Raw(MISSING)

\* the number of descriptors up to i that carry a value
Before(i) == Cardinality({j \in 1..i : Present(j)})

\* C13: build_insert returns a column list and a compiled-value list of equal
\* length holding exactly the descriptors that are not omitted, in descriptor
\* order, the i-th value being compile(value, compiler) of the i-th kept
\* column; no omitted column appears, not even with a NULL value, and the
\* INSERT names only the kept columns.
C13_InsertDropsOmitted ==
  (pc = "done" /\ call.op = "add") =>
    /\ built.err = "none"
    /\ Len(built.statements) = Len(built.parameters)
    /\ Len(built.statements) = Before(Len(parts))
    /\ \A i \in 1..Len(parts) :
         IF Present(i)
         THEN /\ built.statements[Before(i)] = <<parts[i].column>>
              /\ built.parameters[Before(i)] = _compile(parts[i].expr.val, parts[i].compiler)
         ELSE \A j \in 1..Len(built.statements) : built.statements[j] # <<parts[i].column>>
    /\ Before(Len(parts)) > 0 =>
         /\ Len(stmt) = 1
         /\ stmt[1].query =
              <<"INSERT INTO ", table, " (">> \o JoinText(<<",">>, built.statements)
                \o <<") VALUES (">>
                \o JoinText(<<",">>, [i \in 1..Len(built.statements) |-> <<"?">>])
                \o <<")">>
         /\ stmt[1].params = built.parameters

\* the insert of {name: "Alpha", active: omitted}
C13_Witness ==
  /\ pc = "done"
  /\ call.op = "add"
  /\ Len(parts) = 2
  /\ parts[1].column = "name" /\ parts[1].expr = Raw(Alpha)
  /\ parts[2].column = "active" /\ parts[2].expr = Raw(MISSING)
  /\ stmt[1].query = <<"INSERT INTO ", table, " (", "name", ") VALUES (", "?", ")">>
  /\ stmt[1].params = <<Alpha>>
  /\ \E i \in 1..Len(log) : log[i] = "execute"

\* C14: when every descriptor passed to add is omitted, add issues
\* INSERT INTO <table> DEFAULT VALUES with no bind parameters.
C14_DefaultValuesInsert ==
  (pc = "done" /\ call.op = "add" /\ \A i \in 1..Len(parts) : ~Present(i)) =>
    /\ Len(stmt) = 1
    /\ stmt[1].query = <<"INSERT INTO ", table, " DEFAULT VALUES">>
    /\ stmt[1].params = <<>>
    /\ ~stmt[1].bound

\* C15: when every value descriptor given to edit is the omitted marker, edit
\* raises the usage error at construction, returns no update function,
\* acquires no connection and executes no statement; when at least one is not
\* omitted it returns an update function without acquiring a connection.
C15_EmptyChangeSetRejected ==
  (pc = "done" /\ call.op = "edit") =>
    /\ log = <<>>
    /\ stmt = <<>>
    /\ _conn = "None"
    /\ IF \A i \in 1..Len(parts) : ~Present(i)
       THEN res.err = "ValueError" /\ res.kind = "raise"
       ELSE res.err = "none" /\ res.kind = "function" /\ Len(prepared) = 1

C15_Witness ==
  /\ pc = "done"
  /\ call.op = "edit"
  /\ Len(parts) = MaxParts
  /\ \A i \in 1..Len(parts) : ~Present(i)
  /\ res.err = "ValueError"
  /\ prepared = <<>>

Count(events, e) == Cardinality({i \in 1..Len(events) : events[i] = e})

\* the UPDATE ... SET text of the update function
SetText(f) == <<"UPDATE ", table, " SET ">> \o JoinText(<<",">>, f.statements)

\* edit has just returned an update function: it holds the SET lists computed
\* from the descriptors of this call
Phase1 ==
  (pc = "done" /\ call.op = "edit" /\ res.err = "none") =>
    /\ prepared[1].applied = 0
    /\ prepared[1].statements = built.statements
    /\ prepared[1].parameters = built.parameters
    /\ Len(built.statements) = Before(Len(parts))
    /\ \A i \in 1..Len(parts) :
         Present(i) =>
           /\ built.statements[Before(i)] = <<parts[i].column, "=", "?">>
           /\ built.parameters[Before(i)] = _compile(parts[i].expr.val, parts[i].compiler)

\* an application whose WHERE descriptors rendered
Phase2 ==
  (pc = "done" /\ call.op = "apply" /\ built.err = "none") =>
    /\ Len(stmt) = 1
    /\ Count(log, "execute") = 1
    /\ SubSeq(stmt[1].query, 1, Len(SetText(prepared[1]))) = SetText(prepared[1])
    /\ \/ Len(stmt[1].query) = Len(SetText(prepared[1]))
       \/ stmt[1].query[Len(SetText(prepared[1])) + 1] = " WHERE "
    /\ stmt[1].params = prepared[1].parameters \o built.parameters
    /\ (~call.ext /\ res.err = "none") =>
         log = <<"connect", "execute", "commit", "close">>

\* C16: every application of one update function issues exactly one UPDATE
\* whose SET text and SET parameters are those computed in phase 1 (no
\* application changes them), binds the SET parameters followed by its own
\* WHERE parameters, and without an external connection commits once.
C16_PreparedUpdateReusable ==
  /\ [](Phase1 /\ Phase2)
  /\ [][(Len(prepared) = 1 /\ call'.op # "edit") =>
          /\ Len(prepared') = 1
          /\ prepared'[1].statements = prepared[1].statements
          /\ prepared'[1].parameters = prepared[1].parameters]_vars

\* a second application, with a WHERE of its own, of an update of two columns
C16_Witness ==
  /\ pc = "done"
  /\ call.op = "apply"
  /\ prepared[1].applied = 2
  /\ Len(prepared[1].parameters) = 2
  /\ built.err = "none"
  /\ Len(built.parameters) = 1
  /\ stmt[1].params = prepared[1].parameters \o built.parameters
  /\ log = <<"connect", "execute", "commit", "close">>

\* the operations that change the table
WriteOps == {"add", "remove", "apply"}

\* the place of the one event e in the log
At(events, e) == CHOOSE i \in 1..Len(events) : events[i] = e

\* C17: in add, remove and phase 2 of edit, with an external connection the
\* statement is executed on a cursor of that connection and the facade
\* neither commits it, nor closes it, nor acquires a scoped connection;
\* without one the facade acquires a scoped connection, executes the
\* statement and commits exactly once, after the execution and before the
\* release.
C17_TransactionOwnership ==
  (pc = "done" /\ call.op \in WriteOps /\ Len(stmt) = 1) =>
    IF call.ext
    THEN /\ log[1] = "cursor"
         /\ Count(log, "execute") = 1
         /\ Count(log, "commit") = 0
         /\ Count(log, "close") = 0
         /\ Count(log, "connect") = 0
         /\ _conn = "None"
    ELSE /\ log[1] = "connect"
         /\ Count(log, "connect") = 1
         /\ Count(log, "cursor") = 0
         /\ Count(log, "execute") = 1
         /\ res.err = "none" =>
              /\ Count(log, "commit") = 1
              /\ At(log, "execute") < At(log, "commit")
              /\ At(log, "commit") < At(log, "close")
              /\ log[Len(log)] = "close"

\* an insert with a callback on the caller's connection
C17_Witness ==
  /\ pc = "done"
  /\ call.op = "add"
  /\ call.ext
  /\ res = Returned("return_", <<>>)
  /\ Len(stmt[1].params) = MaxParts
  /\ log = <<"cursor", "execute", "return_">>

\* the calls of the facade that run a statement
FacadeOps == {"get", "add", "remove", "apply"}

\* C18: every get, add, remove and phase 2 of edit without an external
\* connection acquires one connection, executes exactly one statement on it
\* and has closed it when the call returns or raises (normal return, engine
\* error, callback error, arity error of get); after any sequence of calls no
\* scoped connection remains open.
C18_GuaranteedRelease ==
  /\ pc \in {"idle", "done"} => _conn = "None"
  /\ (pc = "done" /\ call.op \in FacadeOps /\ ~call.ext) =>
       /\ Count(log, "connect") = Count(log, "close")
       /\ Len(stmt) = 1 =>
            /\ Count(log, "connect") = 1
            /\ Count(log, "execute") = 1
            /\ Count(log, "close") = 1
            /\ log[1] = "connect"
            /\ At(log, "connect") < At(log, "execute")
            /\ At(log, "execute") < At(log, "close")
            /\ log[Len(log)] = "close"

\* the callback of an insert raised
C18_Witness ==
  /\ pc = "done"
  /\ call.op = "add"
  /\ ~call.ext
  /\ res.err = "CallbackError"
  /\ log = <<"connect", "execute", "return_", "close">>
  /\ _conn = "None"

\* C19: in add, remove and phase 2 of edit without an external connection,
\* when the execute raises, or the callback of add raises, nothing is
\* committed, the statement was tried once, the connection is released and
\* the caller gets that exception as raised; the callback of add always runs
\* after the execute and before the commit.
C19_NoCommitAfterFailure ==
  /\ (pc = "done" /\ call.op \in WriteOps /\ ~call.ext /\ Len(stmt) = 1
        /\ res.err # "none") =>
       /\ Count(log, "commit") = 0
       /\ Count(log, "execute") = 1
       /\ log[Len(log)] = "close"
       /\ _conn = "None"
       /\ res.kind = "raise"
       /\ res.err = IF Count(log, "return_") = 1 THEN "CallbackError" ELSE "StorageError"
  /\ (pc = "done" /\ call.op = "add") =>
       /\ Count(log, "return_") <= 1
       /\ res.kind = "return_" => Count(log, "return_") = 1
       /\ Count(log, "return_") = 1 =>
            /\ At(log, "execute") < At(log, "return_")
            /\ Count(log, "commit") = 1 => At(log, "return_") < At(log, "commit")

\* the engine raised on an insert of MaxParts columns
C19_Witness ==
  /\ pc = "done"
  /\ call.op = "add"
  /\ ~call.ext
  /\ Len(stmt[1].params) = MaxParts
  /\ res = Raised("StorageError")
  /\ log = <<"connect", "execute", "close">>

\* the rows get fetched: all that match, or the first batchsize of them
Fetched ==
  IF call.batchsize = NoBatch \/ call.batchsize = 0 \/ call.batchsize > Len(call.rows)
  THEN call.rows
  ELSE SubSeq(call.rows, 1, call.batchsize)

\* row r decompiled field by field by the decompiler of its position, and
\* made a record when a constructor is given
Shaped(r) ==
  LET fields == [c \in 1..Len(parts) |->
                   IF parts[c].decompiler = "bool" THEN BoolV(Fetched[r][c] # IntV(0))
                   ELSE Fetched[r][c]]
  IN IF call.builder THEN RecordV(fields) ELSE ListV(fields)

\* C20: get returns a single record not wrapped in a sequence only when
\* batch_size = 1, and otherwise always a sequence (an empty one when no row
\* matches), each element being the row decompiled positionally and, when a
\* constructor is supplied, mapped through it.
C20_ResultShape ==
  (pc = "done" /\ call.op = "get" /\ res.err = "none") =>
    /\ res.kind = "record" => call.batchsize = 1
    /\ (call.batchsize = 1 /\ Len(Fetched) >= 1) =>
         res.kind = "record" /\ res.rows = <<Shaped(1)>>
    /\ call.batchsize # 1 =>
         /\ res.kind = "sequence"
         /\ res.rows = [r \in 1..Len(Fetched) |-> Shaped(r)]

\* C20 as amended: get returns None when it fetches no row, whatever the
\* batch size; when it fetches rows as wide as the descriptor list it returns
\* a single record not wrapped in a sequence exactly when batch_size = 1 and
\* otherwise the sequence of the fetched rows, each decompiled positionally
\* and, when a constructor is supplied, mapped through it.
C20_ResultShapeOrNone ==
  (pc = "done" /\ call.op = "get" /\ res.err = "none") =>
    IF Len(Fetched) = 0
    THEN res.kind = "None" /\ res.rows = <<>>
    ELSE /\ Len(Fetched[1]) = Len(parts)
         /\ IF call.batchsize = 1
            THEN res.kind = "record" /\ res.rows = <<Shaped(1)>>
            ELSE res.kind = "sequence" /\ res.rows = [r \in 1..Len(Fetched) |-> Shaped(r)]

\* every matching row of a table with a bool column, fetched with no batch
\* size and built into records
C20_Witness ==
  /\ pc = "done"
  /\ call.op = "get"
  /\ call.batchsize = NoBatch
  /\ call.builder
  /\ Len(parts) = 2
  /\ Len(call.rows) = MaxRows
  /\ res.kind = "sequence"
  /\ Len(res.rows) = MaxRows
  /\ res.rows[1] = RecordV(<<IntV(0), BoolV(TRUE)>>)

\* the fields of a row paired with the descriptors position by position
Positional(row) ==
  [c \in 1..Len(parts) |->
     IF parts[c].decompiler = "bool" THEN BoolV(row[c] # IntV(0)) ELSE row[c]]

Plain(e) == ~IsExpression(e) /\ e.val # MISSING

\* the expression with is_ written around every plain value that is the
\* descriptor's value or a sub-value of an and_/or_, at any depth
RECURSIVE Explicit(_)
Explicit(e) ==
  IF Plain(e) THEN is_(e.val)
  ELSE IF e.k \in {"or_", "and_"}
  THEN [e EXCEPT !.args = [i \in 1..Len(e.args) |-> Explicit(e.args[i])]]
  ELSE e

\* C22: a descriptor whose value v is neither an expression nor the marker
\* (None included) is rendered by build_where exactly as the same descriptor
\* with value is_(v): the fragment col IS ? and the parameters [compile(v)];
\* the same holds of the plain sub-values of an and_/or_.
C22_ImplicitEquality ==
  (pc = "done" /\ call.op = "build_where" /\ Len(parts) = 1) =>
    LET p == parts[1] IN
    /\ Plain(p.expr) =>
         /\ built.err = "none"
         /\ built.statements = <<<<p.column, " IS ", "?">>>>
         /\ built.parameters = <<_compile(p.expr.val, p.compiler)>>
    /\ (Plain(p.expr) \/ p.expr.k \in {"or_", "and_"}) =>
         built = _build_where(<<[p EXCEPT !.expr = Explicit(p.expr)]>>)

\* or_(omitted, None, omitted) under the str compiler
C22_Witness ==
  /\ pc = "done"
  /\ call.op = "build_where"
  /\ Len(parts) = 1
  /\ parts[1].expr = or_(Pad(MaxPad) \o <<Raw(None)>> \o Pad(MaxPad))
  /\ parts[1].compiler = "str"
  /\ built.statements = <<<<"score", " IS ", "?">>>>
  /\ built.parameters = <<StrV(<<"N", "o", "n", "e">>)>>

(***************************************************************************)
(* The boolean structure of a rendered condition, read with the precedence *)
(* of SQL: parentheses first, then NOT, then AND, then OR; the AND of a    *)
(* BETWEEN belongs to the BETWEEN.  A tree is a leaf (the tokens of one    *)
(* comparison), a negation of a tree, or a conjunction or disjunction of   *)
(* two or more trees, a conjunction of conjunctions being one conjunction. *)
(***************************************************************************)
Leaf(text) == [op |-> "leaf", text |-> text, kids |-> <<>>]

Neg(tree) == [op |-> "not", text |-> <<>>, kids |-> <<tree>>]

Node(op, kids) ==
  [op |-> op, text |-> <<>>,
   kids |-> Flatten([i \in 1..Len(kids) |->
                       IF kids[i].op = op THEN kids[i].kids ELSE <<kids[i]>>])]

\* the number of parentheses open before token i
Depth(text, i) ==
  Cardinality({j \in 1..(i - 1) : text[j] \in {"(", "instr("}})
    - Cardinality({j \in 1..(i - 1) : text[j] = ")"})

\* token i is the AND of a BETWEEN
BetweenAnd(text, i) ==
  LET js == {j \in 1..(i - 1) : text[j] \in {" BETWEEN ", " AND ", " OR "}} IN
  /\ js # {}
  /\ text[CHOOSE j \in js : \A k \in js : k <= j] = " BETWEEN "

\* the places of the connective outside every parenthesis
TopAt(text, connective) ==
  {i \in 1..Len(text) :
     /\ text[i] = connective
     /\ Depth(text, i) = 0
     /\ connective = " AND " => ~BetweenAnd(text, i)}

RECURSIVE SplitAt(_, _)
SplitAt(text, cuts) ==
  IF cuts = {} THEN <<text>>
  ELSE LET i == CHOOSE j \in cuts : \A k \in cuts : j <= k IN
       <<SubSeq(text, 1, i - 1)>>
         \o SplitAt(SubSeq(text, i + 1, Len(text)), {j - i : j \in cuts \ {i}})

RECURSIVE Parse(_)
Parse(text) ==
  LET ors == TopAt(text, " OR ")
      ands == TopAt(text, " AND ")
  IN
  IF ors # {}
  THEN LET ps == SplitAt(text, ors) IN Node("or", [i \in 1..Len(ps) |-> Parse(ps[i])])
  ELSE IF ands # {}
  THEN LET ps == SplitAt(text, ands) IN Node("and", [i \in 1..Len(ps) |-> Parse(ps[i])])
  ELSE IF Len(text) >= 1 /\ text[1] = "NOT " THEN Neg(Parse(Tail(text)))
  ELSE IF Len(text) >= 2 /\ text[1] = "(" /\ text[Len(text)] = ")"
  THEN Parse(SubSeq(text, 2, Len(text) - 1))
  ELSE Leaf(text)

\* the sub-values of a combinator that yield a fragment
Surviving(e) == SelectSeq(e.args, LAMBDA a : ~Omitted(a))

\* the boolean structure of the expression itself
RECURSIVE Tree(_, _, _)
Tree(e, column, compiler) ==
  CASE e.k \in {"or_", "and_"} ->
         LET kids == [i \in 1..Len(Surviving(e)) |-> Tree(Surviving(e)[i], column, compiler)]
         IN IF Len(kids) = 1 THEN kids[1]
            ELSE Node(IF e.k = "or_" THEN "or" ELSE "and", kids)
    [] e.k = "is_not" /\ Len(e.args) > 0 -> Neg(Tree(e.args[1], column, compiler))
    [] e.k = "raw" -> Leaf(UnaryText("is_", column))
    [] OTHER -> Leaf(Format(e, column, compiler).stmt)

\* the expression holds an and_/or_ with two or more surviving sub-values
RECURSIVE HasGroup(_)
HasGroup(e) ==
  \/ e.k \in {"or_", "and_"} /\ Len(Surviving(e)) >= 2
  \/ \E i \in 1..Len(e.args) : HasGroup(e.args[i])

\* the tokens after WHERE
Condition(query) ==
  LET i == CHOOSE j \in 1..Len(query) : query[j] = " WHERE " IN
  SubSeq(query, i + 1, Len(query))

\* C23: whenever an and_/or_ with two or more surviving sub-fragments is
\* joined with other descriptors' fragments by the statement's connective,
\* nested inside the opposite combinator, or negated by is_not, the rendered
\* text, read with the precedence of SQL (NOT tighter than AND, AND tighter
\* than OR), has the boolean structure of the expression tree: each fragment
\* that of its descriptor's expression, the WHERE clause the conjunction
\* (matchall) or disjunction of the descriptors' structures.
C23_GroupingPreserved ==
  (pc = "done" /\ call.op \in WhereOps /\ built.err = "none"
     /\ \E i \in 1..Len(parts) : ~Omitted(parts[i].expr) /\ HasGroup(parts[i].expr)) =>
    LET kept == Kept(parts)
        trees == [j \in 1..Len(kept) |-> Tree(kept[j].expr, kept[j].column, kept[j].compiler)]
    IN
    /\ Len(built.statements) = Len(kept)
    /\ \A j \in 1..Len(kept) : Parse(built.statements[j]) = trees[j]
    /\ (call.op \in StatementOps /\ Len(stmt) = 1
          /\ \E j \in 1..Len(stmt[1].query) : stmt[1].query[j] = " WHERE ") =>
         Parse(Condition(stmt[1].query)) =
           IF Len(trees) = 1 THEN trees[1]
           ELSE Node(IF call.matchall THEN "and" ELSE "or", trees)

(***************************************************************************)
(* Users over the facade: the USERS table, Users.get and Users.add         *)
(***************************************************************************)
\* users a table can hold in a run
MaxUsers == 3

\* the columns of CREATE TABLE USERS, in order
UsersColumns ==
  <<"user_id", "active", "timestamp", "discord_id", "username", "previous_usernames",
    "num_name_changes", "team">>

ColumnAt(name) == CHOOSE i \in 1..Len(UsersColumns) : UsersColumns[i] = name

\* dbutils.db(self._db_conn, self.table) of the USERS mapping: the statement of
\* the facade with its table name
OnUsers(args) ==
  [args EXCEPT !.query = [i \in 1..Len(args.query) |->
                            IF args.query[i] = table THEN "USERS" ELSE args.query[i]]]

\* the engine running SELECT * FROM USERS [WHERE col IS ? AND ...]: the rows
\* whose named columns are the bound values
Select(rows, args) ==
  IF \A j \in 1..Len(args.query) : args.query[j] # " WHERE " THEN rows
  ELSE LET cond == Condition(args.query)
           tests == SplitAt(cond, TopAt(cond, " AND "))
       IN SelectSeq(rows, LAMBDA r :
                            \A k \in 1..Len(tests) : r[ColumnAt(tests[k][1])] = args.params[k])

\* the engine running INSERT INTO USERS (c1,...) VALUES (?,...): the new row,
\* the named columns bound, user_id the next one, the others their defaults
Inserted(args, user_id) ==
  LET close == CHOOSE j \in 1..Len(args.query) : args.query[j] = ") VALUES ("
      named == SelectSeq(SubSeq(args.query, 4, close - 1), LAMBDA x : x # ",")
  IN
  [i \in 1..Len(UsersColumns) |->
     IF \E k \in 1..Len(named) : named[k] = UsersColumns[i]
     THEN args.params[CHOOSE k \in 1..Len(named) : named[k] = UsersColumns[i]]
     ELSE CASE UsersColumns[i] = "user_id" -> IntV(user_id)
            [] UsersColumns[i] = "active" -> IntV(1)
            [] UsersColumns[i] = "num_name_changes" -> IntV(0)
            [] OTHER -> None]

\* Users.get(discord_id=..., username=...): the descriptor list
UsersParts(discord_id, username) ==
  <<part("user_id", Raw(MISSING), "MISSING", "MISSING"),
    part("active", Raw(MISSING), "MISSING", "bool"),
    part("timestamp", Raw(MISSING), "MISSING", "MISSING"),
    part("discord_id", discord_id, "str", "MISSING"),
    part("username", username, "MISSING", "MISSING"),
    part("previous_usernames", Raw(MISSING), "ListCompiler", "ListDecompiler(str)"),
    part("num_name_changes", Raw(MISSING), "MISSING", "MISSING"),
    part("team", Raw(MISSING), "MISSING", "MISSING")>>

\* Users.get: db.get of the list, all rows, matchall, built into models.User;
\* it reads through a connection of its own and sees the committed rows
UsersGet(discord_id, username) ==
  LET ps == UsersParts(discord_id, username)
      args == OnUsers(GetArgs(_build_where(ps), TRUE))
  IN [args |-> args, res |-> GetResult(Select(USERS.rows, args), ps, NoBatch, TRUE)]

\* "if self.get(...)": None is false, a list of users true
Exists(got) == got.res.kind = "sequence" /\ Len(got.res.rows) > 0

\* Users.add: the descriptor list of the insert
UsersAddParts(discord_id, username, timestamp) ==
  <<part("discord_id", Raw(discord_id), "str", "MISSING"),
    part("username", Raw(username), "MISSING", "MISSING"),
    part("timestamp", Raw(timestamp), "MISSING", "MISSING")>>

\* Users.add(discord_id, username, connection_override, ignore=False).  The
\* insert through the mapping's own connection fails while the caller's
\* connection holds uncommitted rows (the database is locked).
UsersAdd(discord_id, username, timestamp, ext) ==
  LET byId == UsersGet(Raw(discord_id), Raw(MISSING))
      byName == UsersGet(Raw(MISSING), Raw(username))
      ps == UsersAddParts(discord_id, username, timestamp)
      b == _build_insert(ps)
      args == OnUsers(AddArgs(b))
      locked == ~ext /\ Len(USERS.uncommitted) > 0
      row == Inserted(args, Len(USERS.rows) + Len(USERS.uncommitted) + 1)
      read == Scoped(<<"execute", "fetch">>)
  IN
  /\ pc = "idle"
  /\ Len(USERS.rows) + Len(USERS.uncommitted) < MaxUsers
  /\ pc' = "done"
  /\ call' = [op |-> "Users.add", matchall |-> TRUE, ext |-> ext, batchsize |-> NoBatch,
              builder |-> TRUE, rows |-> <<<<_compile(discord_id, "str"), username>>>>]
  /\ IF Exists(byId)
     THEN /\ parts' = UsersParts(Raw(discord_id), Raw(MISSING))
          /\ built' = _build_where(parts')
          /\ stmt' = <<byId.args>>
          /\ log' = read
          /\ res' = Raised("ValueError")
          /\ USERS' = USERS
     ELSE IF Exists(byName)
     THEN /\ parts' = UsersParts(Raw(MISSING), Raw(username))
          /\ built' = _build_where(parts')
          /\ stmt' = <<byId.args, byName.args>>
          /\ log' = read \o read
          /\ res' = Raised("ValueError")
          /\ USERS' = USERS
     ELSE /\ parts' = ps
          /\ built' = b
          /\ stmt' = <<byId.args, byName.args, args>>
          /\ log' = read \o read \o AddLog(ext, TRUE, locked, FALSE)
          /\ res' = IF locked THEN Raised("StorageError") ELSE Returned("None", <<>>)
          /\ USERS' = IF locked THEN USERS
                      ELSE IF ext
                      THEN [USERS EXCEPT !.uncommitted = Append(@, row)]
                      ELSE [USERS EXCEPT !.rows = Append(@, row)]
  /\ _conn' = After(_conn, log')
  /\ UNCHANGED <<prepared, codec>>

\* the caller commits the connection it handed to add as connection_override
CallerCommit ==
  /\ pc = "idle"
  /\ Len(USERS.uncommitted) > 0
  /\ USERS' = [rows |-> USERS.rows \o USERS.uncommitted, uncommitted |-> <<>>]
  /\ UNCHANGED <<pc, parts, prepared, call, built, stmt, log, res, codec, _conn>>

\* a discord id as a number and as its text, and another one
DiscordIds == {IntV(123), StrV(<<"1", "2", "3">>), IntV(45)}

Usernames == {Alpha, Bot}

\* int(time.time())
Times == {IntV(10)}

CallUsersAdd ==
  \E d \in DiscordIds, u \in Usernames, t \in Times, ext \in BOOLEAN : UsersAdd(d, u, t, ext)

NextUsers ==
  \/ CallUsersAdd
  \/ CallerCommit
  \/ Return

SpecUsers == Init /\ [][NextUsers]_vars

\* C24: starting from an empty USERS table, after any sequence of Users.add
\* calls made with ignore=False and no other writer, no two rows of the table
\* share a discord_id (as text, so 123 and "123" collide) and no two rows
\* share a username; an add whose discord_id or username already exists
\* raises ValueError, executes no INSERT and leaves the table unchanged.
C24_UserUniqueness ==
  /\ [](\A i, j \in 1..Len(USERS.rows) :
          i # j =>
            /\ USERS.rows[i][ColumnAt("discord_id")] # USERS.rows[j][ColumnAt("discord_id")]
            /\ USERS.rows[i][ColumnAt("username")] # USERS.rows[j][ColumnAt("username")])
  /\ [][(call'.op = "Users.add" /\ pc' = "done"
           /\ \E i \in 1..Len(USERS.rows) :
                \/ USERS.rows[i][ColumnAt("discord_id")] = call'.rows[1][1]
                \/ USERS.rows[i][ColumnAt("username")] = call'.rows[1][2]) =>
          /\ res' = Raised("ValueError")
          /\ USERS' = USERS
          /\ \A k \in 1..Len(stmt') : stmt'[k].query[1] # "INSERT INTO "]_vars
====
